---- MODULE Spec2Model ----
(***************************************************************************)
(* Model of the todo application's persistence and service layer:          *)
(*   models/Todo.js               the Todo entity and its validation       *)
(*   services/storageService.js   StorageService (file store, lines 1-107) *)
(*                                and TodoService (lines 333-529)          *)
(*                                                                         *)
(* Every async function is cut at its awaits: one action is the completion *)
(* of the pending fs call of one in-flight call together with the          *)
(* synchronous JavaScript that runs up to the next await.                  *)
(*                                                                         *)
(* The file system is modelled with inodes, because fs.promises.writeFile  *)
(* is open(O_TRUNC) followed by write(), and rename() moves the inode a    *)
(* concurrent writer may still hold open.  File content is a sequence of   *)
(* tokens of the JSON text: "[", one token per record, "]".                *)
(***************************************************************************)
EXTENDS Integers, Sequences, FiniteSets, TLC

\* ------------------------------------------------------------------ bounds
\* number of uuids the model hands out (createTodo is disabled afterwards)
MaxIds == 2
\* number of overlapping service calls started in one behaviour (Spec)
MaxOps == 2
\* number of service calls started one after the other (SpecSeq)
MaxSeqOps == 3
\* number of direct store calls started in one behaviour (SpecStore)
MaxStoreOps == 3
\* the clock (milliseconds) runs from 0 to MaxClock
MaxClock == 1
\* number of process crashes in one behaviour
MaxCrashes == 1
\* number of requests handled one after the other (SpecHttp)
MaxHttpOps == 3

\* the async calls that can be in flight at the same time
Procs == {"a", "b"}

\* the one call at a time of the sequential specification
SeqProcs == {"a"}

\* --------------------------------------------------------- program constants
\* Todo.validateDescription: if (trimmed.length > 500)
MaxDescLen == 500

\* ------------------------------------------------------------ JS values
\* A JavaScript value as far as the code inspects it.  A string is
\* pre blanks, core characters (first and last not blank), post blanks.
Val(t, pre, core, post, b) ==
  [t |-> t, pre |-> pre, core |-> core, post |-> post, b |-> b]

Undefined == Val("undefined", 0, 0, 0, FALSE)

Null == Val("null", 0, 0, 0, FALSE)

Num == Val("number", 0, 0, 0, FALSE)

Bool(b) == Val("boolean", 0, 0, 0, b)

Str(pre, core, post) == Val("string", pre, core, post, FALSE)

\* mutant of Trim: String.prototype.trimStart
Trim_LeftOnly(s) == Str(0, s.core, s.post)

\* String.prototype.trim
Trim(s) == Str(0, s.core, 0)

\* String.prototype.length
Length(s) == IF s.core = 0 THEN s.pre ELSE s.pre + s.core + s.post

\* results of a call: a value or a thrown Error (its message, outermost
\* prefix first)
Ok(todos, n) == [ok |-> TRUE, err |-> <<>>, todos |-> todos, n |-> n]

Err(msg) == [ok |-> FALSE, err |-> msg, todos |-> <<>>, n |-> 0]

NoRet == [ok |-> TRUE, err |-> <<"pending">>, todos |-> <<>>, n |-> 0]

\* ------------------------------------------------------------ models/Todo.js
\* mutant of validateDescription: the emptiness test runs on the untrimmed
\* string
validateDescription_NoTrim(description) ==
  IF description.t # "string"
    THEN [ok |-> FALSE, err |-> <<"Description must be a string">>, v |-> Undefined]
  ELSE IF Length(description) = 0
    THEN [ok |-> FALSE, err |-> <<"Description cannot be empty">>, v |-> Undefined]
  ELSE IF Length(Trim(description)) > MaxDescLen
    THEN [ok |-> FALSE, err |-> <<"Description cannot exceed 500 characters">>, v |-> Undefined]
  ELSE [ok |-> TRUE, err |-> <<>>, v |-> Trim(description)]

\* Todo.validateDescription
validateDescription(description) ==
  IF description.t # "string"
    THEN [ok |-> FALSE, err |-> <<"Description must be a string">>, v |-> Undefined]
  ELSE IF Length(Trim(description)) = 0
    THEN [ok |-> FALSE, err |-> <<"Description cannot be empty">>, v |-> Undefined]
  ELSE IF Length(Trim(description)) > MaxDescLen
    THEN [ok |-> FALSE, err |-> <<"Description cannot exceed 500 characters">>, v |-> Undefined]
  ELSE [ok |-> TRUE, err |-> <<>>, v |-> Trim(description)]

NoTodo ==
  [id |-> 0, description |-> Undefined, completed |-> FALSE, createdAt |-> 0, updatedAt |-> 0]

\* mutant of NewTodo: the id does not depend on the uuid drawn
NewTodo_SameId(description, id, t) ==
  LET d == validateDescription(description)
  IN  IF d.ok
        THEN [ok |-> TRUE, err |-> <<>>,
              todo |-> [id |-> 1, description |-> d.v, completed |-> FALSE,
                        createdAt |-> t, updatedAt |-> t]]
        ELSE [ok |-> FALSE, err |-> d.err, todo |-> NoTodo]

\* Todo.constructor(description, id): id is the given one or a fresh uuid,
\* t is the value of new Date()
NewTodo(description, id, t) ==
  LET d == validateDescription(description)
  IN  IF d.ok
        THEN [ok |-> TRUE, err |-> <<>>,
              todo |-> [id |-> id, description |-> d.v, completed |-> FALSE,
                        createdAt |-> t, updatedAt |-> t]]
        ELSE [ok |-> FALSE, err |-> d.err, todo |-> NoTodo]

\* mutant of updateDescription: the new description is assigned as given
updateDescription_NoValidate(todo, newDescription, t) ==
  [ok |-> TRUE, err |-> <<>>,
   todo |-> [todo EXCEPT !.description = newDescription, !.updatedAt = t]]

\* Todo.updateDescription
updateDescription(todo, newDescription, t) ==
  LET d == validateDescription(newDescription)
  IN  IF d.ok
        THEN [ok |-> TRUE, err |-> <<>>,
              todo |-> [todo EXCEPT !.description = d.v, !.updatedAt = t]]
        ELSE [ok |-> FALSE, err |-> d.err, todo |-> todo]

\* mutant of toggleComplete: updatedAt is not refreshed
toggleComplete_NoTouch(todo, t) ==
  [todo EXCEPT !.completed = ~todo.completed]

\* Todo.toggleComplete
toggleComplete(todo, t) ==
  [todo EXCEPT !.completed = ~todo.completed, !.updatedAt = t]

\* mutant of setCompleted: the time stamp goes to createdAt
setCompleted_WrongStamp(todo, completed, t) ==
  IF completed.t # "boolean"
    THEN [ok |-> FALSE, err |-> <<"Completed status must be a boolean">>, todo |-> todo]
    ELSE [ok |-> TRUE, err |-> <<>>,
          todo |-> [todo EXCEPT !.completed = completed.b, !.createdAt = t]]

\* Todo.setCompleted
setCompleted(todo, completed, t) ==
  IF completed.t # "boolean"
    THEN [ok |-> FALSE, err |-> <<"Completed status must be a boolean">>, todo |-> todo]
    ELSE [ok |-> TRUE, err |-> <<>>,
          todo |-> [todo EXCEPT !.completed = completed.b, !.updatedAt = t]]

\* Date.prototype.toISOString as JSON.stringify applies it to a Date field
ToISO(t) == [iso |-> t]

\* new Date(isoString)
FromISO(s) == s.iso

\* mutant of toJSON: updatedAt is written from createdAt
toJSON_StaleUpdatedAt(todo) ==
  [id |-> todo.id, description |-> todo.description, completed |-> todo.completed,
   createdAt |-> ToISO(todo.createdAt), updatedAt |-> ToISO(todo.createdAt)]

\* Todo.toJSON followed by JSON.stringify's conversion of its fields: the
\* plain object that ends up in the JSON text
toJSON(todo) ==
  [id |-> todo.id, description |-> todo.description, completed |-> todo.completed,
   createdAt |-> ToISO(todo.createdAt), updatedAt |-> ToISO(todo.updatedAt)]

\* mutant of fromJSON: data.createdAt is not restored
fromJSON_NoCreatedAt(data, fresh, t) ==
  LET c == NewTodo(data.description, IF data.id # 0 THEN data.id ELSE fresh, t)
  IN  IF c.ok
        THEN [c EXCEPT !.todo.completed = data.completed,
                       !.todo.updatedAt = FromISO(data.updatedAt)]
        ELSE c

\* Todo.fromJSON(data) for a parsed record; fresh is the uuid the constructor
\* would draw when data.id is falsy
fromJSON(data, fresh, t) ==
  LET c == NewTodo(data.description, IF data.id # 0 THEN data.id ELSE fresh, t)
  IN  IF c.ok
        THEN [c EXCEPT !.todo.completed = data.completed,
                       !.todo.createdAt = FromISO(data.createdAt),
                       !.todo.updatedAt = FromISO(data.updatedAt)]
        ELSE c

\* todosData.map(data => Todo.fromJSON(data)): stops at the first throw
RECURSIVE MapFromJSON(_, _, _)
MapFromJSON(todosData, fresh, t) ==
  IF todosData = <<>> THEN [ok |-> TRUE, err |-> <<>>, todos |-> <<>>]
  ELSE LET h == fromJSON(Head(todosData), fresh, t)
       IN  IF ~h.ok THEN [ok |-> FALSE, err |-> h.err, todos |-> <<>>]
           ELSE LET r == MapFromJSON(Tail(todosData), fresh, t)
                IN  IF r.ok THEN [r EXCEPT !.todos = <<h.todo>> \o r.todos]
                    ELSE r

\* todos.map(t => t.toJSON())
MapToJSON(todos) == [i \in 1..Len(todos) |-> toJSON(todos[i])]

\* ------------------------------------------------------------ JSON text
\* a token of the JSON text; v holds the record of an object token
LBracket == [k |-> "[", v |-> <<>>]

RBracket == [k |-> "]", v |-> <<>>]

Obj(r) == [k |-> "obj", v |-> <<r>>]

\* JSON.stringify(todos, null, 2)
Stringify(todos) ==
  <<LBracket>> \o [i \in 1..Len(todos) |-> Obj(todos[i])] \o <<RBracket>>

\* JSON.parse accepts the text: one "[", records, one "]" and nothing after
WellFormed(text) ==
  /\ Len(text) >= 2
  /\ text[1].k = "["
  /\ text[Len(text)].k = "]"
  /\ \A i \in 2..(Len(text) - 1) : text[i].k = "obj"

\* JSON.parse(data) of a well-formed text
Parse(text) == [i \in 1..(Len(text) - 2) |-> text[i + 1].v[1]]

\* write(fd, data) at offset 0 of a file holding old
Overlay(old, data) ==
  IF Len(old) > Len(data) THEN data \o SubSeq(old, Len(data) + 1, Len(old)) ELSE data

\* ------------------------------------------------------------ frontend
\* TodoApp.retryAttempts
retryAttempts == 3

\* the toggleTodoCompletion calls that can be in flight together
Togs == {"t1", "t2"}

\* an Error object: its name and its message, a sequence of phrases
UiError(name, message) == [name |-> name, message |-> message]

NoError == UiError("none", <<>>)

\* the substrings tested with String.includes that a phrase contains
Mentions(phrase) ==
  CASE phrase = "Failed to fetch" -> {"fetch", "Failed to fetch", "Failed to"}
    [] phrase = "You are currently offline. Please check your internet connection and try again."
         -> {"offline"}
    [] phrase = "Todo not found" -> {"not found"}
    [] phrase = "The requested item was not found. It may have been deleted." -> {"not found"}
    [] phrase = "Failed to update todo" -> {"Failed to"}
    [] phrase = "Failed after attempts" -> {"Failed after"}
    [] OTHER -> {}

\* message.includes(word)
Includes(message, word) == \E i \in 1..Len(message) : word \in Mentions(message[i])

\* mutant of isNetworkError: every error is taken for a network error
isNetworkError_Always(error) == error.name # "none"

\* TodoApp.isNetworkError
isNetworkError(error) ==
  \/ error.name = "TypeError"
  \/ Includes(error.message, "fetch")
  \/ Includes(error.message, "network")
  \/ Includes(error.message, "Failed to fetch")
  \/ Includes(error.message, "NetworkError")
  \/ Includes(error.message, "timeout")

\* TodoApp.getUserFriendlyError(status, serverError); "" is undefined
getUserFriendlyError(status, serverError) ==
  IF serverError # "" /\ "Error:" \notin Mentions(serverError)
                      /\ "Failed to" \notin Mentions(serverError)
    THEN serverError
  ELSE CASE status = 400 ->
              IF serverError # "" THEN serverError
              ELSE "The request was invalid. Please check your input and try again."
         [] status = 404 -> "The requested item was not found. It may have been deleted."
         [] status = 500 -> "A server error occurred. Please try again in a few moments."
         [] OTHER -> IF serverError # "" THEN serverError ELSE "An unexpected error occurred."

\* the rejection of fetch: a TypeError
FetchError == UiError("TypeError", <<"Failed to fetch">>)

\* the Error apiRequest throws when navigator.onLine is false
OfflineError ==
  UiError("Error", <<"You are currently offline. Please check your internet connection and try again.">>)

\* the response of the server to PUT /api/todos/:id with {completed}
Response(status, error, completed) ==
  [status |-> status, error |-> error, completed |-> completed]

NoResponse == Response(0, "", FALSE)

\* a toggleTodoCompletion call before it is made: completed is its argument,
\* todo the object found in this.todos, original its originalCompleted,
\* attempt the loop variable of apiRequest, fetches the number of fetch
\* calls made, req the state of the request on the wire, res the response,
\* err the error caught last, thrown the error apiRequest threw
TogIdle ==
  [pc |-> "idle", completed |-> FALSE, todo |-> 0, original |-> FALSE,
   attempt |-> 0, fetches |-> 0, req |-> "none", res |-> NoResponse,
   err |-> NoError, thrown |-> NoError, ok |-> FALSE]

\* the page after loadTodos has shown the one todo of the server: objs are
\* the todo objects ever held (their completed field), cur the one that is
\* in this.todos (0 when none), checked the checkbox of its list element;
\* rejected is history: some fetch was rejected
UiInit ==
  [online |-> TRUE, exists |-> TRUE, server |-> FALSE, objs |-> <<FALSE>>, cur |-> 1,
   checked |-> FALSE, started |-> 0, rejected |-> FALSE,
   togs |-> [t \in Togs |-> TogIdle]]

\* the catch block of apiRequest at the end of an attempt: rethrow, with
\* 'Failed after n attempts. ' in front after the first attempt, or go on to
\* the delay before the next attempt
ApiCatch(c, error) ==
  IF c.attempt = retryAttempts \/ ~isNetworkError(error)
    THEN [c EXCEPT !.pc = "thrown", !.req = "none", !.err = error,
                   !.thrown = IF c.attempt > 1
                                THEN UiError("Error", <<"Failed after attempts">> \o error.message)
                                ELSE error]
    ELSE [c EXCEPT !.pc = "delay", !.req = "none", !.err = error]

\* one iteration of the loop of apiRequest up to its await of fetch
ApiAttempt(c, online) ==
  IF ~online THEN ApiCatch(c, OfflineError)
  ELSE [c EXCEPT !.pc = "fetch", !.req = "sent", !.fetches = c.fetches + 1]

\* the catch block of toggleTodoCompletion in page u: the rollback writes to
\* the object the call found when it started
ToggleCatch(u, t, c) ==
  [u EXCEPT !.objs[c.todo] = c.original,
            !.checked = IF u.cur # 0 THEN c.original ELSE u.checked,
            !.cur = IF /\ ~Includes(c.thrown.message, "offline")
                       /\ Includes(c.thrown.message, "not found")
                      THEN 0 ELSE u.cur,
            !.togs[t] = [c EXCEPT !.pc = "done", !.ok = FALSE]]

\* toggleTodoCompletion after apiRequest has returned a response with
\* success: this.todos[todoIndex] = response.data, a new object
ToggleSuccess(u, t, c) ==
  [u EXCEPT !.objs = IF u.cur # 0 THEN Append(u.objs, c.res.completed) ELSE u.objs,
            !.cur = IF u.cur # 0 THEN Len(u.objs) + 1 ELSE 0,
            !.togs[t] = [c EXCEPT !.pc = "done", !.ok = TRUE, !.req = "none"]]

\* the page after apiRequest has gone on to c
AfterApi(u, t, c) ==
  IF c.pc = "thrown" THEN ToggleCatch(u, t, c) ELSE [u EXCEPT !.togs[t] = c]

\* ------------------------------------------------------------ state
VARIABLES
  dataDir,     \* the data directory exists
  dir,         \* directory entries: file and tmp ('<file>.tmp'), inode or 0
  inodes,      \* inode -> content (JSON text); <<>> when unused
  calls,       \* the in-flight async call of each member of Procs
  now,         \* the value new Date() returns
  nextId,      \* the next uuid uuidv4() returns
  opsStarted,  \* number of calls started so far
  crashes,     \* number of process crashes so far
  initialized, \* TodoController.initialized
  lastSaved,   \* history: the collection of the save whose rename landed last
  overlapped,  \* history: some call started while another was in flight
  ui           \* the page of the frontend (TodoApp) and its requests

vars ==
  <<dataDir, dir, inodes, calls, now, nextId, opsStarted, crashes, initialized, lastSaved, overlapped, ui>>

Inos == 1..(Cardinality(Procs) + 2)

\* the id argument of a service call: the uuid string number n, the empty
\* string (n = 0), or something that is not a string
IdStr(n) == [t |-> "string", n |-> n]

IdNull == [t |-> "null", n |-> 0]

\* mutant of InvalidId: only the typeof test, the empty string passes
InvalidId_OnlyType(id) == id.t # "string"

\* !id || typeof id !== 'string'
InvalidId(id) == id.n = 0 \/ id.t # "string"

\* the updates argument of updateTodo: kind is what typeof/truthiness see,
\* description and completed are updates.description and updates.completed,
\* extra says that it has some other own key
Updates(kind, description, completed, extra) ==
  [kind |-> kind, description |-> description, completed |-> completed, extra |-> extra]

NoUpd == Updates("undefined", Undefined, Undefined, FALSE)

\* mutant of InvalidUpdates: only the truthiness test, no typeof test
InvalidUpdates_OnlyFalsy(updates) == updates.kind \in {"undefined", "null"}

\* !updates || typeof updates !== 'object'
InvalidUpdates(updates) == updates.kind \notin {"object", "array"}

IdleCall ==
  [op |-> "idle", pc |-> "idle", inInit |-> FALSE, inLoad |-> FALSE,
   id |-> IdNull, upd |-> NoUpd, desc |-> Undefined, todo |-> NoTodo,
   data |-> <<>>, val |-> NoRet, fd |-> 0, ret |-> NoRet, again |-> FALSE,
   req |-> "none", ctl |-> "none", status |-> 0, sent |-> 0,
   cnt |-> [total |-> 0, completed |-> 0, incomplete |-> 0]]

InFlight(p) == calls[p].pc \notin {"idle", "done"}

Settled == \A p \in Procs : ~InFlight(p)

\* an inode no directory entry and no open descriptor refers to
Referenced(d, cs) == {d.file, d.tmp} \cup {cs[p].fd : p \in Procs}

\* unreferenced inodes are freed
Collect(ino, d, cs) ==
  [i \in Inos |-> IF i \in Referenced(d, cs) THEN ino[i] ELSE <<>>]

FreeIno == CHOOSE i \in Inos : i \notin Referenced(dir, calls) /\
             \A j \in Inos : j \notin Referenced(dir, calls) => i <= j

FileExists == dir.file # 0

\* the text of the storage file
FileText == inodes[dir.file]

Init ==
  /\ dataDir = FALSE
  /\ dir = [file |-> 0, tmp |-> 0]
  /\ inodes = [i \in Inos |-> <<>>]
  /\ calls = [p \in Procs |-> IdleCall]
  /\ now = 0
  /\ nextId = 1
  /\ opsStarted = 0
  /\ crashes = 0
  /\ initialized = FALSE
  /\ lastSaved = [set |-> FALSE, todos |-> <<>>]
  /\ overlapped = FALSE
  /\ ui = UiInit

\* ------------------------------------------------ control flow of one call
\* the call settles with result r
Finish(c, r) ==
  [c EXCEPT !.pc = "done", !.ret = r, !.inInit = FALSE, !.inLoad = FALSE,
            !.data = <<>>, !.val = NoRet, !.fd = 0, !.todo = NoTodo]

\* an Error with message e leaves the body of the operation: createTodo's
\* catch wraps it, the other operations let it through
ThrowFromOp(c, e) ==
  Finish(c, Err(IF c.op = "createTodo" THEN <<"Failed to create todo">> \o e ELSE e))

\* await this.storageService.saveTodos(data) is entered; val is what the
\* operation returns when the save succeeds
BeginSave(c, data, val) ==
  [c EXCEPT !.pc = "mkdirS", !.data = data, !.val = val, !.inLoad = FALSE]

\* mutant of FindIndex: a miss yields the last index (what splice(-1, 1)
\* would take) instead of -1
FindIndex_LastOnMiss(todos, id) ==
  IF \E i \in 1..Len(todos) : todos[i].id = id.n
    THEN CHOOSE i \in 1..Len(todos) :
           todos[i].id = id.n /\ \A j \in 1..(i - 1) : todos[j].id # id.n
    ELSE Len(todos)

\* todos.findIndex(todo => todo.id === id): 0 stands for -1
FindIndex(todos, id) ==
  IF \E i \in 1..Len(todos) : todos[i].id = id.n
    THEN CHOOSE i \in 1..Len(todos) :
           todos[i].id = id.n /\ \A j \in 1..(i - 1) : todos[j].id # id.n
    ELSE 0

\* mutant of Push: todos.unshift(todo)
Push_Front(todos, todo) == <<todo>> \o todos

\* todos.push(todo)
Push(todos, todo) == Append(todos, todo)

\* mutant of Splice: todos.splice(todoIndex), which removes up to the end
Splice_ToEnd(todos, i) == SubSeq(todos, 1, i - 1)

\* todos.splice(todoIndex, 1)
Splice(todos, i) == SubSeq(todos, 1, i - 1) \o SubSeq(todos, i + 1, Len(todos))

\* mutant of FilterIncomplete: the predicate is not negated
FilterIncomplete_NotNegated(todos) ==
  SelectSeq(todos, LAMBDA todo : todo.completed)

\* todos.filter(todo => !todo.completed)
RECURSIVE FilterIncomplete(_)
FilterIncomplete(todos) ==
  IF todos = <<>> THEN <<>>
  ELSE IF Head(todos).completed THEN FilterIncomplete(Tail(todos))
  ELSE <<Head(todos)>> \o FilterIncomplete(Tail(todos))

\* mutant of Find: a miss throws instead of returning null
Find_Throws(todos, id) ==
  IF \E i \in 1..Len(todos) : todos[i].id = id.n
    THEN Ok(<<todos[CHOOSE i \in 1..Len(todos) :
                      todos[i].id = id.n /\ \A j \in 1..(i - 1) : todos[j].id # id.n]>>, 0)
    ELSE Err(<<"Todo not found">>)

\* todos.find(todo => todo.id === id) || null: the first match, or no
\* record for null
Find(todos, id) ==
  IF \E i \in 1..Len(todos) : todos[i].id = id.n
    THEN Ok(<<todos[CHOOSE i \in 1..Len(todos) :
                      todos[i].id = id.n /\ \A j \in 1..(i - 1) : todos[j].id # id.n]>>, 0)
    ELSE Ok(<<>>, 0)

\* todos.filter(todo => todo.completed)
RECURSIVE FilterCompleted(_)
FilterCompleted(todos) ==
  IF todos = <<>> THEN <<>>
  ELSE IF Head(todos).completed THEN <<Head(todos)>> \o FilterCompleted(Tail(todos))
  ELSE FilterCompleted(Tail(todos))

\* mutant of getTodosCount: incomplete is counted with the filter of
\* completed
getTodosCount_SameFilter(todos) ==
  [total |-> Len(todos),
   completed |-> Len(FilterCompleted(todos)),
   incomplete |-> Len(FilterCompleted(todos))]

\* TodoService.getTodosCount, lines 498-502: the object it returns
getTodosCount(todos) ==
  [total |-> Len(todos),
   completed |-> Len(FilterCompleted(todos)),
   incomplete |-> Len(FilterIncomplete(todos))]

\* mutant of ApplyUpdates: a refused completed is skipped and the record
\* with the new description is kept
ApplyUpdates_Partial(todo, updates, t) ==
  LET u1 == IF updates.description.t # "undefined"
              THEN updateDescription(todo, updates.description, t)
              ELSE [ok |-> TRUE, err |-> <<>>, todo |-> todo]
  IN  IF ~u1.ok THEN u1
      ELSE IF updates.completed.t # "undefined" /\ setCompleted(u1.todo, updates.completed, t).ok
        THEN setCompleted(u1.todo, updates.completed, t)
        ELSE u1

\* TodoService.updateTodo, lines 422-431: apply the provided fields
ApplyUpdates(todo, updates, t) ==
  LET u1 == IF updates.description.t # "undefined"
              THEN updateDescription(todo, updates.description, t)
              ELSE [ok |-> TRUE, err |-> <<>>, todo |-> todo]
  IN  IF ~u1.ok THEN u1
      ELSE IF updates.completed.t # "undefined"
        THEN setCompleted(u1.todo, updates.completed, t)
        ELSE u1

\* the synchronous part of a TodoService operation that follows
\* const todos = await this.getAllTodos(), at time t
Compute(c, todos, t) ==
  LET i == FindIndex(todos, c.id)
  IN  CASE c.op = "getAllTodos" -> Finish(c, Ok(todos, 0))
        [] c.op = "createTodo" ->
             BeginSave(c, MapToJSON(Push(todos, c.todo)), Ok(<<c.todo>>, 0))
        [] c.op = "updateTodo" ->
             IF i = 0 THEN ThrowFromOp(c, <<"Todo not found">>)
             ELSE LET u == ApplyUpdates(todos[i], c.upd, t)
                  IN  IF ~u.ok THEN ThrowFromOp(c, u.err)
                      ELSE BeginSave(c, MapToJSON([todos EXCEPT ![i] = u.todo]),
                                     Ok(<<u.todo>>, 0))
        [] c.op = "toggleComplete" ->
             IF i = 0 THEN ThrowFromOp(c, <<"Todo not found">>)
             ELSE BeginSave(c, MapToJSON([todos EXCEPT ![i] = toggleComplete(todos[i], t)]),
                            Ok(<<toggleComplete(todos[i], t)>>, 0))
        [] c.op = "deleteTodo" ->
             IF i = 0 THEN ThrowFromOp(c, <<"Todo not found">>)
             ELSE BeginSave(c, MapToJSON(Splice(todos, i)), Ok(<<>>, 1))
        [] c.op = "clearCompletedTodos" ->
             BeginSave(c, MapToJSON(FilterIncomplete(todos)),
                       Ok(<<>>, Len(todos) - Len(FilterIncomplete(todos))))
        [] c.op = "getTodoById" -> Finish(c, Find(todos, c.id))
        [] c.op = "getTodosCount" ->
             [Finish(c, Ok(<<>>, 0)) EXCEPT !.cnt = getTodosCount(todos)]
        [] OTHER -> Finish(c, Ok(todos, 0))

\* mutant of LoadThrow: getAllTodos' catch answers with an empty collection
LoadThrow_Swallow(c, e) ==
  IF c.op = "loadTodos" THEN Finish(c, Err(e))
  ELSE Finish(c, Ok(<<>>, 0))

\* loadTodos throws e to its caller: getAllTodos' catch wraps it
LoadThrow(c, e) ==
  IF c.op = "loadTodos" THEN Finish(c, Err(e))
  ELSE ThrowFromOp(c, <<"Failed to retrieve todos">> \o e)

\* loadTodos returns todosData to its caller: getAllTodos maps it through
\* Todo.fromJSON and the operation goes on
LoadReturn(c, todosData, fresh, t) ==
  IF c.op = "loadTodos" THEN Finish(c, Ok(todosData, 0))
  ELSE LET m == MapFromJSON(todosData, fresh, t)
       IN  IF m.ok THEN Compute(c, m.todos, t)
           ELSE ThrowFromOp(c, <<"Failed to retrieve todos">> \o m.err)

\* initializeStorage returns: to loadTodos' ENOENT branch (return []) or to
\* TodoService.initialize
InitReturn(c, fresh, t) ==
  IF c.inLoad THEN LoadReturn([c EXCEPT !.inInit = FALSE], <<>>, fresh, t)
  ELSE Finish(c, Ok(<<>>, 0))

\* initializeStorage throws e (already prefixed): inside loadTodos' catch
\* block it leaves loadTodos as it is
InitThrow(c, e) ==
  IF c.inLoad THEN LoadThrow(c, e) ELSE Finish(c, Err(e))

\* saveTodos returns
SaveReturn(c, fresh, t) ==
  IF c.inInit THEN InitReturn(c, fresh, t) ELSE Finish(c, c.val)

\* saveTodos throws 'Failed to save todos: ' + e
SaveThrow(c, e) ==
  IF c.inInit
    THEN InitThrow(c, <<"Failed to initialize storage", "Failed to save todos">> \o e)
    ELSE ThrowFromOp(c, <<"Failed to save todos">> \o e)

\* ------------------------------------------------ TodoController
\* the call enters getAllTodos and awaits loadTodos' readFile
EnterLoad(c) == [c EXCEPT !.pc = "read", !.inLoad = TRUE]

\* res.status(s).json(...): one more response is written for the request;
\* the client receives the status of the first one
Respond(c, s) ==
  [c EXCEPT !.pc = "done", !.ctl = "responded", !.sent = c.sent + 1,
            !.status = IF c.sent = 0 THEN s ELSE c.status]

\* mutant of HandlerCatch: no return after the 404 response
HandlerCatch_NoReturn(c) ==
  IF c.req \in {"updateTodo", "deleteTodo"} /\ c.ret.err = <<"Todo not found">>
    THEN Respond(Respond(c, 404), 500)
    ELSE Respond(c, 500)

\* the catch block of a handler; updateTodo and deleteTodo test
\* error.message === 'Todo not found'
HandlerCatch(c) ==
  IF c.req \in {"updateTodo", "deleteTodo"} /\ c.ret.err = <<"Todo not found">>
    THEN Respond(c, 404)
    ELSE Respond(c, 500)

\* the handler's await of the service call: pending, returned or thrown
AfterService(c) ==
  IF c.pc # "done" THEN c
  ELSE IF c.ret.ok THEN Respond(c, IF c.req = "createTodo" THEN 201 ELSE 200)
  ELSE HandlerCatch(c)

\* the handlers' checks of a description: undefined, null or not a string,
\* empty once trimmed, longer than 500 characters once trimmed
ControllerDescriptionError(d) ==
  d.t # "string" \/ Length(Trim(d)) = 0 \/ Length(Trim(d)) > MaxDescLen

\* updates === undefined || updates === null || typeof updates !== 'object'
\* || Array.isArray(updates) || Object.keys(updates).length === 0
ControllerInvalidUpdates(u) ==
  \/ u.kind # "object"
  \/ u.description.t = "undefined" /\ u.completed.t = "undefined" /\ ~u.extra

\* the handler's validation answers the request with 400
ControllerRejects(c) ==
  CASE c.req = "createTodo" -> ControllerDescriptionError(c.desc)
    [] c.req = "updateTodo" ->
         \/ InvalidId(c.id)
         \/ ControllerInvalidUpdates(c.upd)
         \/ c.upd.description.t # "undefined" /\ ControllerDescriptionError(c.upd.description)
         \/ c.upd.completed.t \notin {"undefined", "boolean"}
    [] c.req = "deleteTodo" -> InvalidId(c.id)
    [] OTHER -> FALSE

\* the TodoService call a handler makes, up to its first await: createTodo
\* gets the trimmed description, updateTodo the updates with the trimmed
\* description
ServiceCall(c, t) ==
  LET s == [c EXCEPT !.op = c.req, !.ctl = "service", !.ret = NoRet]
  IN  CASE c.req = "createTodo" ->
             LET n == NewTodo(Trim(c.desc), c.id.n, t)
             IN  IF n.ok THEN EnterLoad([s EXCEPT !.todo = n.todo])
                 ELSE ThrowFromOp(s, n.err)
        [] c.req = "updateTodo" ->
             LET u == IF c.upd.description.t # "undefined"
                        THEN [c.upd EXCEPT !.description = Trim(c.upd.description)]
                        ELSE c.upd
             IN  IF InvalidId(c.id) THEN ThrowFromOp(s, <<"Valid todo ID is required">>)
                 ELSE IF InvalidUpdates(u) THEN ThrowFromOp(s, <<"Updates object is required">>)
                 ELSE EnterLoad([s EXCEPT !.upd = u])
        [] c.req = "deleteTodo" ->
             IF InvalidId(c.id) THEN ThrowFromOp(s, <<"Valid todo ID is required">>)
             ELSE EnterLoad(s)
        [] OTHER -> EnterLoad(s)

\* a handler after await this.initialize() has returned: validation of the
\* request, then the service call
Handle(c, t) ==
  IF ControllerRejects(c) THEN Respond(c, 400)
  ELSE AfterService(ServiceCall(c, t))

\* the synchronous continuation of the handler that awaits c, at time t
Resume(c, t) ==
  IF c.pc # "done" THEN c
  ELSE IF c.ctl = "init" THEN IF c.ret.ok THEN Handle(c, t) ELSE HandlerCatch(c)
  ELSE IF c.ctl = "service" THEN AfterService(c)
  ELSE c

\* TodoController.initialize, line 348: this.initialized = true once the
\* awaited todoService.initialize() of p, which settles as c, has returned
InitializedAfter(p, c) ==
  initialized \/ (calls[p].ctl = "init" /\ c.pc = "done" /\ c.ret.ok)

\* ------------------------------------------------ steps of StorageService
\* the state of the calls after p moved to c; a handler that awaits c goes on
\* when c has settled
Move(p, c) == [calls EXCEPT ![p] = Resume(c, now)]

\* mutant of ReadFile: ENOENT is handled like any other read error
ReadFile_NoEnoent(p) ==
  /\ calls[p].pc = "read"
  /\ IF ~FileExists
       THEN calls' = Move(p, LoadThrow(calls[p], <<"Failed to load todos">>))
       ELSE IF WellFormed(FileText)
         THEN calls' = Move(p, LoadReturn(calls[p], Parse(FileText), nextId, now))
         ELSE calls' = Move(p, LoadThrow(calls[p], <<"Invalid JSON format in storage file">>))
  /\ UNCHANGED <<dataDir, dir, inodes, now, nextId, opsStarted, crashes, ui, initialized, lastSaved, overlapped>>

\* loadTodos: await fs.readFile(this.filePath) completes, then JSON.parse
\* and the caller's synchronous continuation run
ReadFile(p) ==
  /\ calls[p].pc = "read"
  /\ IF ~FileExists
       THEN calls' = Move(p, [calls[p] EXCEPT !.inInit = TRUE, !.pc = "mkdirI"])
       ELSE IF WellFormed(FileText)
         THEN calls' = Move(p, LoadReturn(calls[p], Parse(FileText), nextId, now))
         ELSE calls' = Move(p, LoadThrow(calls[p], <<"Invalid JSON format in storage file">>))
  /\ UNCHANGED <<dataDir, dir, inodes, now, nextId, opsStarted, crashes, ui, initialized, lastSaved, overlapped>>

\* loadTodos: fs.readFile fails with an error other than ENOENT
ReadFileFault(p) ==
  /\ calls[p].pc = "read"
  /\ FileExists
  /\ calls' = Move(p, LoadThrow(calls[p], <<"Failed to load todos">>))
  /\ UNCHANGED <<dataDir, dir, inodes, now, nextId, opsStarted, crashes, ui, initialized, lastSaved, overlapped>>

\* initializeStorage: await fs.mkdir(this.dataDir, {recursive: true})
InitMkdir(p) ==
  /\ calls[p].pc = "mkdirI"
  /\ dataDir' = TRUE
  /\ calls' = Move(p, [calls[p] EXCEPT !.pc = "access"])
  /\ UNCHANGED <<dir, inodes, now, nextId, opsStarted, crashes, ui, initialized, lastSaved, overlapped>>

\* initializeStorage: await fs.access(this.filePath); on ENOENT it enters
\* saveTodos([])
InitAccess(p) ==
  /\ calls[p].pc = "access"
  /\ IF FileExists
       THEN /\ calls' = Move(p, InitReturn(calls[p], nextId, now))
            /\ initialized' = InitializedAfter(p, InitReturn(calls[p], nextId, now))
       ELSE /\ calls' = Move(p, [calls[p] EXCEPT !.pc = "mkdirS", !.data = <<>>])
            /\ initialized' = initialized
  /\ UNCHANGED <<dataDir, dir, inodes, now, nextId, opsStarted, crashes, ui, lastSaved, overlapped>>

\* saveTodos: await fs.mkdir(this.dataDir, {recursive: true})
SaveMkdir(p) ==
  /\ calls[p].pc = "mkdirS"
  /\ dataDir' = TRUE
  /\ calls' = Move(p, [calls[p] EXCEPT !.pc = "open"])
  /\ UNCHANGED <<dir, inodes, now, nextId, opsStarted, crashes, ui, initialized, lastSaved, overlapped>>

\* saveTodos: fs.writeFile(tempFilePath, ...) opens the staging file with
\* O_CREAT | O_TRUNC
SaveOpen(p) ==
  /\ calls[p].pc = "open"
  /\ LET ino == IF dir.tmp # 0 THEN dir.tmp ELSE FreeIno
     IN  /\ dir' = [dir EXCEPT !.tmp = ino]
         /\ inodes' = [inodes EXCEPT ![ino] = <<>>]
         /\ calls' = Move(p, [calls[p] EXCEPT !.pc = "write", !.fd = ino])
  /\ UNCHANGED <<dataDir, now, nextId, opsStarted, crashes, ui, initialized, lastSaved, overlapped>>

\* saveTodos: fs.writeFile writes JSON.stringify(todos, null, 2) through its
\* descriptor at offset 0 and closes it
SaveWrite(p) ==
  /\ calls[p].pc = "write"
  /\ LET c == [calls[p] EXCEPT !.pc = "rename", !.fd = 0]
         w == [inodes EXCEPT ![calls[p].fd] = Overlay(@, Stringify(calls[p].data))]
     IN  /\ calls' = Move(p, c)
         /\ inodes' = Collect(w, dir, Move(p, c))
  /\ UNCHANGED <<dataDir, dir, now, nextId, opsStarted, crashes, ui, initialized, lastSaved, overlapped>>

\* mutant of SaveRename: a rename that does not replace an existing file
SaveRename_NoReplace(p) ==
  /\ calls[p].pc = "rename"
  /\ dir.tmp # 0
  /\ dir' = IF FileExists THEN [dir EXCEPT !.tmp = 0] ELSE [file |-> dir.tmp, tmp |-> 0]
  /\ calls' = Move(p, SaveReturn(calls[p], nextId, now))
  /\ initialized' = InitializedAfter(p, SaveReturn(calls[p], nextId, now))
  /\ inodes' = Collect(inodes, dir', calls')
  /\ lastSaved' = [set |-> TRUE, todos |-> calls[p].data]
  /\ UNCHANGED <<dataDir, now, nextId, opsStarted, crashes, ui, overlapped>>

\* saveTodos: await fs.rename(tempFilePath, this.filePath) succeeds
SaveRename(p) ==
  /\ calls[p].pc = "rename"
  /\ dir.tmp # 0
  /\ dir' = [file |-> dir.tmp, tmp |-> 0]
  /\ calls' = Move(p, SaveReturn(calls[p], nextId, now))
  /\ initialized' = InitializedAfter(p, SaveReturn(calls[p], nextId, now))
  /\ inodes' = Collect(inodes, dir', calls')
  /\ lastSaved' = [set |-> TRUE, todos |-> calls[p].data]
  /\ UNCHANGED <<dataDir, now, nextId, opsStarted, crashes, ui, overlapped>>

\* saveTodos: fs.rename fails with ENOENT because the staging file is gone
\* (another call renamed or unlinked it); the catch block is entered
SaveRenameNoEnt(p) ==
  /\ calls[p].pc = "rename"
  /\ dir.tmp = 0
  /\ calls' = Move(p, [calls[p] EXCEPT !.pc = "unlink"])
  /\ UNCHANGED <<dataDir, dir, inodes, now, nextId, opsStarted, crashes, ui, initialized, lastSaved, overlapped>>

\* saveTodos: fs.rename is refused by the file system although the staging
\* file is there (an I/O fault); the catch block is entered
SaveRenameFault(p) ==
  /\ calls[p].pc = "rename"
  /\ dir.tmp # 0
  /\ calls' = Move(p, [calls[p] EXCEPT !.pc = "unlink"])
  /\ UNCHANGED <<dataDir, dir, inodes, now, nextId, opsStarted, crashes, ui, initialized, lastSaved, overlapped>>

\* mutant of SaveUnlink: the catch block throws without the cleanup
SaveUnlink_NoCleanup(p) ==
  /\ calls[p].pc = "unlink"
  /\ calls' = Move(p, SaveThrow(calls[p], <<"rename failed">>))
  /\ UNCHANGED <<dataDir, dir, inodes, now, nextId, opsStarted, crashes, ui, initialized, lastSaved, overlapped>>

\* saveTodos: await fs.unlink(tempFilePath) in the catch block (its own
\* failure is ignored), then throw 'Failed to save todos: ...'
SaveUnlink(p) ==
  /\ calls[p].pc = "unlink"
  /\ dir' = [dir EXCEPT !.tmp = 0]
  /\ calls' = Move(p, SaveThrow(calls[p], <<"rename failed">>))
  /\ inodes' = Collect(inodes, dir', calls')
  /\ UNCHANGED <<dataDir, now, nextId, opsStarted, crashes, ui, initialized, lastSaved, overlapped>>

\* the process dies: every in-flight call and open descriptor is gone, the
\* file system stays as it is
Crash ==
  /\ crashes < MaxCrashes
  /\ \E p \in Procs : InFlight(p)
  /\ crashes' = crashes + 1
  /\ calls' = [p \in Procs |-> IdleCall]
  /\ inodes' = Collect(inodes, dir, calls')
  /\ initialized' = FALSE
  /\ UNCHANGED <<dataDir, dir, now, nextId, opsStarted, lastSaved, overlapped, ui>>

\* time passes
Tick ==
  /\ now < MaxClock
  /\ now' = now + 1
  /\ UNCHANGED <<dataDir, dir, inodes, calls, nextId, opsStarted, crashes, ui, initialized, lastSaved, overlapped>>

\* one step of the store on behalf of call p when no I/O fault occurs and
\* no other call interferes
StoreStep(p) ==
  \/ ReadFile(p)
  \/ InitMkdir(p)
  \/ InitAccess(p)
  \/ SaveMkdir(p)
  \/ SaveOpen(p)
  \/ SaveWrite(p)
  \/ SaveRename(p)
  \/ SaveUnlink(p)

\* an I/O fault hits the pending fs call of p
Fault(p) ==
  \/ ReadFileFault(p)
  \/ SaveRenameFault(p)

\* ------------------------------------------------ arguments of the calls
\* descriptions passed to createTodo: padded, 500 characters inside
\* blanks, empty, blank, 501 characters, and not a string
DescArgs ==
  {Str(1, 1, 1), Str(1, MaxDescLen, 1),
   Str(0, 0, 0), Str(2, 0, 0), Str(0, MaxDescLen + 1, 0), Null, Num}

\* ids passed to the service: every uuid handed out, the empty string, null
IdArgs == {IdStr(n) : n \in 0..MaxIds} \cup {IdNull}

\* updates passed to updateTodo
UpdArgs ==
  {NoUpd,
   Updates("null", Undefined, Undefined, FALSE),
   Updates("string", Undefined, Undefined, FALSE),
   Updates("array", Undefined, Undefined, FALSE),
   Updates("object", Undefined, Undefined, FALSE),
   Updates("object", Undefined, Undefined, TRUE),
   Updates("object", Str(1, 2, 1), Undefined, FALSE),
   Updates("object", Str(1, 0, 0), Undefined, FALSE),
   Updates("object", Undefined, Bool(TRUE), FALSE),
   Updates("object", Undefined, Bool(FALSE), FALSE),
   Updates("object", Undefined, Num, FALSE),
   Updates("object", Str(0, 2, 0), Num, FALSE),
   Updates("object", Str(0, 2, 0), Bool(TRUE), FALSE)}

\* ------------------------------------------------ operations of TodoService
\* a new call of p starts
Begin(p) ==
  /\ ~InFlight(p)
  /\ opsStarted' = opsStarted + 1
  /\ overlapped' = (overlapped \/ \E q \in Procs \ {p} : InFlight(q))

NewCall(op) == [IdleCall EXCEPT !.op = op]

\* TodoService.getAllTodos
GetAllTodos(p) ==
  /\ Begin(p)
  /\ calls' = Move(p, EnterLoad(NewCall("getAllTodos")))
  /\ UNCHANGED <<dataDir, dir, inodes, now, nextId, crashes, ui, initialized, lastSaved>>

\* TodoService.createTodo: new Todo(description) runs before the first await
CreateTodo(p, description) ==
  /\ Begin(p)
  /\ LET c == [NewCall("createTodo") EXCEPT !.desc = description]
         n == NewTodo(description, nextId, now)
     IN  IF n.ok
           THEN /\ nextId <= MaxIds
                /\ nextId' = nextId + 1
                /\ calls' = Move(p, EnterLoad([c EXCEPT !.todo = n.todo]))
           ELSE /\ nextId' = nextId
                /\ calls' = Move(p, ThrowFromOp(c, n.err))
  /\ UNCHANGED <<dataDir, dir, inodes, now, crashes, ui, initialized, lastSaved>>

\* TodoService.updateTodo up to its first await
UpdateTodo(p, id, updates) ==
  /\ Begin(p)
  /\ LET c == [NewCall("updateTodo") EXCEPT !.id = id, !.upd = updates]
     IN  calls' = Move(p,
           IF InvalidId(id) THEN ThrowFromOp(c, <<"Valid todo ID is required">>)
           ELSE IF InvalidUpdates(updates) THEN ThrowFromOp(c, <<"Updates object is required">>)
           ELSE EnterLoad(c))
  /\ UNCHANGED <<dataDir, dir, inodes, now, nextId, crashes, ui, initialized, lastSaved>>

\* TodoService.toggleComplete up to its first await
ToggleComplete(p, id) ==
  /\ Begin(p)
  /\ LET c == [NewCall("toggleComplete") EXCEPT !.id = id]
     IN  calls' = Move(p,
           IF InvalidId(id) THEN ThrowFromOp(c, <<"Valid todo ID is required">>)
           ELSE EnterLoad(c))
  /\ UNCHANGED <<dataDir, dir, inodes, now, nextId, crashes, ui, initialized, lastSaved>>

\* TodoService.deleteTodo up to its first await; again (history) says that
\* the previous call of p was a successful deleteTodo of the same id
DeleteTodo(p, id) ==
  /\ Begin(p)
  /\ LET c == [NewCall("deleteTodo") EXCEPT
                !.id = id,
                !.again = ( /\ calls[p].op = "deleteTodo" /\ calls[p].pc = "done"
                            /\ calls[p].ret.ok /\ calls[p].id = id )]
     IN  calls' = Move(p,
           IF InvalidId(id) THEN ThrowFromOp(c, <<"Valid todo ID is required">>)
           ELSE EnterLoad(c))
  /\ UNCHANGED <<dataDir, dir, inodes, now, nextId, crashes, ui, initialized, lastSaved>>

\* TodoService.clearAllTodos: saveTodos([])
ClearAllTodos(p) ==
  /\ Begin(p)
  /\ calls' = Move(p, BeginSave(NewCall("clearAllTodos"), <<>>, Ok(<<>>, 1)))
  /\ UNCHANGED <<dataDir, dir, inodes, now, nextId, crashes, ui, initialized, lastSaved>>

\* TodoService.clearCompletedTodos up to its first await
ClearCompletedTodos(p) ==
  /\ Begin(p)
  /\ calls' = Move(p, EnterLoad(NewCall("clearCompletedTodos")))
  /\ UNCHANGED <<dataDir, dir, inodes, now, nextId, crashes, ui, initialized, lastSaved>>

\* TodoService.getTodoById up to its first await
GetTodoById(p, id) ==
  /\ Begin(p)
  /\ LET c == [NewCall("getTodoById") EXCEPT !.id = id]
     IN  calls' = Move(p,
           IF InvalidId(id) THEN ThrowFromOp(c, <<"Valid todo ID is required">>)
           ELSE EnterLoad(c))
  /\ UNCHANGED <<dataDir, dir, inodes, now, nextId, crashes, ui, initialized, lastSaved>>

\* TodoService.getTodosCount up to its first await
GetTodosCount(p) ==
  /\ Begin(p)
  /\ calls' = Move(p, EnterLoad(NewCall("getTodosCount")))
  /\ UNCHANGED <<dataDir, dir, inodes, now, nextId, crashes, ui, initialized, lastSaved>>

\* TodoService.initialize: StorageService.initializeStorage
Initialize(p) ==
  /\ Begin(p)
  /\ calls' = Move(p, [NewCall("initialize") EXCEPT !.pc = "mkdirI", !.inInit = TRUE])
  /\ UNCHANGED <<dataDir, dir, inodes, now, nextId, crashes, ui, initialized, lastSaved>>

\* ------------------------------------------------ direct calls of the store
\* records as they are persisted (section 6 of the specification)
Rec(id, completed) ==
  [id |-> id, description |-> Str(0, id, 0), completed |-> completed,
   createdAt |-> ToISO(0), updatedAt |-> ToISO(0)]

\* the argument of saveTodos: an array (items) or something else
ArrayArg(items) == [isArray |-> TRUE, items |-> items]

NotAnArray == [isArray |-> FALSE, items |-> <<>>]

SaveArgs ==
  {ArrayArg(<<>>), ArrayArg(<<Rec(1, FALSE)>>), ArrayArg(<<Rec(1, FALSE), Rec(2, TRUE)>>),
   ArrayArg(<<Rec(2, TRUE), Rec(1, FALSE)>>), NotAnArray}

\* StorageService.saveTodos(todos) up to its first await
SaveTodos(p, arg) ==
  /\ Begin(p)
  /\ calls' = Move(p,
       IF ~arg.isArray THEN Finish(NewCall("saveTodos"), Err(<<"Todos must be an array">>))
       ELSE BeginSave(NewCall("saveTodos"), arg.items, Ok(<<>>, 0)))
  /\ UNCHANGED <<dataDir, dir, inodes, now, nextId, crashes, ui, initialized, lastSaved>>

\* StorageService.loadTodos() up to its first await
LoadTodos(p) ==
  /\ Begin(p)
  /\ calls' = Move(p, EnterLoad(NewCall("loadTodos")))
  /\ UNCHANGED <<dataDir, dir, inodes, now, nextId, crashes, ui, initialized, lastSaved>>

\* ------------------------------------------------ specifications
\* the arguments of overlapping service calls
DescConc == {Str(0, 1, 0), Str(1, 2, 1)}

IdConc == {IdStr(n) : n \in 1..MaxIds}

UpdConc ==
  {Updates("object", Str(0, 2, 0), Undefined, FALSE),
   Updates("object", Undefined, Bool(TRUE), FALSE)}

\* TodoService calls that overlap, without I/O faults
Next ==
  \/ \E p \in Procs :
       \/ /\ opsStarted < MaxOps
          /\ \/ GetAllTodos(p)
             \/ \E description \in DescConc : CreateTodo(p, description)
             \/ \E id \in IdConc, updates \in UpdConc : UpdateTodo(p, id, updates)
             \/ \E id \in IdConc : ToggleComplete(p, id)
             \/ \E id \in IdConc : DeleteTodo(p, id)
             \/ ClearAllTodos(p)
             \/ ClearCompletedTodos(p)
             \/ Initialize(p)
       \/ StoreStep(p)
       \/ SaveRenameNoEnt(p)
  \/ Tick

Spec == Init /\ [][Next]_vars

\* TodoService calls one after the other, with every kind of argument and
\* with I/O faults (the staging file of a call is never taken by another)
NextSeq ==
  \/ \E p \in SeqProcs :
       \/ /\ opsStarted < MaxSeqOps
          /\ Settled
          /\ \/ GetAllTodos(p)
             \/ \E description \in DescArgs : CreateTodo(p, description)
             \/ \E id \in IdArgs, updates \in UpdArgs : UpdateTodo(p, id, updates)
             \/ \E id \in IdArgs : ToggleComplete(p, id)
             \/ \E id \in IdArgs : DeleteTodo(p, id)
             \/ ClearAllTodos(p)
             \/ ClearCompletedTodos(p)
             \/ Initialize(p)
             \/ \E id \in IdArgs : GetTodoById(p, id)
             \/ GetTodosCount(p)
       \/ StoreStep(p)
       \/ Fault(p)
  \/ Tick

SpecSeq == Init /\ [][NextSeq]_vars

\* direct StorageService calls that overlap, with I/O faults and crashes
NextStore ==
  \/ \E p \in Procs :
       \/ /\ opsStarted < MaxStoreOps
          /\ \/ \E arg \in SaveArgs : SaveTodos(p, arg)
             \/ LoadTodos(p)
             \/ Initialize(p)
       \/ StoreStep(p)
       \/ SaveRenameNoEnt(p)
       \/ Fault(p)
  \/ Crash

SpecStore == Init /\ [][NextStore]_vars

\* ------------------------------------------------ requests to TodoController
\* req.body.description of POST /api/todos: the descriptions above, or none
BodyDescArgs == DescArgs \cup {Undefined}

\* mutant of Request: the handler calls todoService.initialize() whatever
\* this.initialized says
Request_AlwaysInit(p, c) ==
  /\ Begin(p)
  /\ calls' = Move(p, [c EXCEPT !.ctl = "init", !.pc = "mkdirI", !.inInit = TRUE])

\* a request enters handler c.req: await this.initialize() calls
\* todoService.initialize() unless the controller is initialized
Request(p, c) ==
  /\ Begin(p)
  /\ calls' = Move(p,
       IF initialized THEN Handle([c EXCEPT !.ctl = "init"], now)
       ELSE [c EXCEPT !.ctl = "init", !.pc = "mkdirI", !.inInit = TRUE])

\* GET /api/todos
HttpGetAllTodos(p) ==
  /\ Request(p, [NewCall("initialize") EXCEPT !.req = "getAllTodos"])
  /\ UNCHANGED <<dataDir, dir, inodes, now, nextId, crashes, ui, initialized, lastSaved>>

\* POST /api/todos; the uuid the Todo constructor will draw is reserved
\* when the request arrives
HttpCreateTodo(p, description) ==
  /\ IF ControllerDescriptionError(description)
       THEN /\ Request(p, [NewCall("initialize") EXCEPT
                            !.req = "createTodo", !.desc = description])
            /\ nextId' = nextId
       ELSE /\ nextId <= MaxIds
            /\ Request(p, [NewCall("initialize") EXCEPT
                            !.req = "createTodo", !.desc = description,
                            !.id = IdStr(nextId)])
            /\ nextId' = nextId + 1
  /\ UNCHANGED <<dataDir, dir, inodes, now, crashes, ui, initialized, lastSaved>>

\* PUT /api/todos/:id
HttpUpdateTodo(p, id, updates) ==
  /\ Request(p, [NewCall("initialize") EXCEPT
                  !.req = "updateTodo", !.id = id, !.upd = updates])
  /\ UNCHANGED <<dataDir, dir, inodes, now, nextId, crashes, ui, initialized, lastSaved>>

\* DELETE /api/todos/:id
HttpDeleteTodo(p, id) ==
  /\ Request(p, [NewCall("initialize") EXCEPT !.req = "deleteTodo", !.id = id])
  /\ UNCHANGED <<dataDir, dir, inodes, now, nextId, crashes, ui, initialized, lastSaved>>

\* requests handled one after the other, with every kind of argument and
\* with I/O faults
NextHttp ==
  \E p \in SeqProcs :
    \/ /\ opsStarted < MaxHttpOps
       /\ Settled
       /\ \/ HttpGetAllTodos(p)
          \/ \E description \in BodyDescArgs : HttpCreateTodo(p, description)
          \/ \E id \in IdArgs, updates \in UpdArgs : HttpUpdateTodo(p, id, updates)
          \/ \E id \in IdArgs : HttpDeleteTodo(p, id)
    \/ StoreStep(p)
    \/ Fault(p)

SpecHttp == Init /\ [][NextHttp]_vars

\* ------------------------------------------------ steps of the frontend
\* number of toggleTodoCompletion calls of a run
MaxUiOps == 2

\* the frontend steps leave the server process and its store alone
BackendUnchanged ==
  UNCHANGED <<dataDir, dir, inodes, calls, now, nextId, opsStarted, crashes,
              initialized, lastSaved, overlapped>>

\* the user clicks the checkbox of the todo: toggleTodoCompletion(todo.id,
\* e.target.checked) runs up to its first await, through the optimistic
\* update and the first iteration of apiRequest
toggleTodoCompletion(t) ==
  /\ ui.togs[t].pc \in {"idle", "done"}
  /\ ui.started < MaxUiOps
  /\ ui.cur # 0
  /\ LET completed == ~ui.checked
         u == [ui EXCEPT !.objs[ui.cur] = completed, !.checked = completed,
                         !.started = ui.started + 1]
         c == [TogIdle EXCEPT !.pc = "run", !.completed = completed, !.todo = ui.cur,
                              !.original = ui.objs[ui.cur], !.attempt = 1]
     IN  ui' = AfterApi(u, t, ApiAttempt(c, ui.online))
  /\ BackendUnchanged

\* the server handles the PUT of call t: TodoController.updateTodo answers
\* 200 with the updated todo, 404 when the todo is gone, or 500 when the
\* store fails
ServerPut(t) ==
  /\ ui.togs[t].pc = "fetch"
  /\ ui.togs[t].req = "sent"
  /\ \/ /\ ui.exists
        /\ ui' = [ui EXCEPT !.server = ui.togs[t].completed,
                            !.togs[t].req = "answered",
                            !.togs[t].res = Response(200, "", ui.togs[t].completed)]
     \/ /\ ~ui.exists
        /\ ui' = [ui EXCEPT !.togs[t].req = "answered",
                            !.togs[t].res = Response(404, "Todo not found", FALSE)]
     \/ ui' = [ui EXCEPT !.togs[t].req = "answered",
                         !.togs[t].res = Response(500, "Failed to update todo", FALSE)]
  /\ BackendUnchanged

\* await fetch(url, requestOptions) of call t resolves with the response
FetchResolves(t) ==
  /\ ui.togs[t].pc = "fetch"
  /\ ui.togs[t].req = "answered"
  /\ LET c == ui.togs[t]
     IN  IF c.res.status = 200
           THEN ui' = ToggleSuccess(ui, t, c)
           ELSE ui' = AfterApi(ui, t,
                  ApiCatch(c, UiError("Error",
                                      <<getUserFriendlyError(c.res.status, c.res.error)>>)))
  /\ BackendUnchanged

\* await fetch(url, requestOptions) of call t rejects: the connection
\* failed, before the server saw the request or after it handled it
FetchRejects(t) ==
  /\ ui.togs[t].pc = "fetch"
  /\ ui' = AfterApi([ui EXCEPT !.rejected = TRUE], t, ApiCatch(ui.togs[t], FetchError))
  /\ BackendUnchanged

\* await this.delay(this.retryDelay * attempt) of call t returns and the
\* next iteration of apiRequest runs
DelayElapses(t) ==
  /\ ui.togs[t].pc = "delay"
  /\ ui' = AfterApi(ui, t,
             ApiAttempt([ui.togs[t] EXCEPT !.attempt = ui.togs[t].attempt + 1], ui.online))
  /\ BackendUnchanged

\* navigator.onLine changes
Connectivity ==
  /\ ui' = [ui EXCEPT !.online = ~ui.online]
  /\ BackendUnchanged

\* another client deletes the todo on the server
DeletedElsewhere ==
  /\ ui.exists
  /\ ui' = [ui EXCEPT !.exists = FALSE]
  /\ BackendUnchanged

\* a pending step of call t
UiStep(t) ==
  \/ ServerPut(t)
  \/ FetchResolves(t)
  \/ FetchRejects(t)
  \/ DelayElapses(t)

NextUi ==
  \/ \E t \in Togs : toggleTodoCompletion(t) \/ UiStep(t)
  \/ Connectivity
  \/ DeletedElsewhere

\* the page with its requests
SpecUi == Init /\ [][NextUi]_vars

\* ------------------------------------------------ vocabulary of the claims
\* call p settles in this step
Settles(p) == InFlight(p) /\ calls'[p].pc = "done"

\* call p starts in this step
Starts(p) == ~InFlight(p) /\ opsStarted' = opsStarted + 1 /\ calls'[p] # calls[p]

\* the rename of call p lands in this step
Lands(p) ==
  /\ calls[p].pc = "rename"
  /\ calls'[p].pc # "rename"
  /\ dir.tmp # 0
  /\ dir'.tmp = 0
  /\ dir'.file = dir.tmp

\* the storage file holds a complete JSON array
FileValid == FileExists /\ WellFormed(FileText)

\* the persisted collection (of a valid file)
Persisted == Parse(FileText)

\* what loadTodos would return: the persisted collection, [] for no file
Stored == IF FileExists THEN Persisted ELSE <<>>

Ids(todos) == [i \in 1..Len(todos) |-> todos[i].id]

DistinctIds(todos) ==
  \A i, j \in 1..Len(todos) : i # j => todos[i].id # todos[j].id

\* the store (directory entries and file contents) is the same after the step
StoreUnchanged == UNCHANGED <<dataDir, dir, inodes>>

\* (C1) The storage file never holds partially written or corrupt data,
\* whatever the interleaving of overlapping saveTodos and loadTodos calls and
\* wherever a crash hits: whenever it exists it is one complete collection.
C1_FileNeverTorn == FileExists => WellFormed(FileText)

\* the storage file holds exactly the collection of the last landed save,
\* or does not exist when no save has landed
FileIsLastSaved ==
  IF lastSaved.set THEN FileValid /\ Persisted = lastSaved.todos ELSE ~FileExists

\* e is the Error of a failed write
IsWriteError(e) == \E i \in 1..Len(e) : e[i] = "Failed to save todos"

C3_SaveLoadRoundTrip ==
  [][\A p \in Procs :
       (calls[p].op = "loadTodos" /\ Settles(p) /\ calls'[p].ret.ok /\ ~overlapped')
         => lastSaved'.set /\ calls'[p].ret.todos = lastSaved'.todos]_vars

\* witness of C3: a loadTodos that did not overlap another call has returned
\* the two records saved last, the record with id 2 first
C3_Witness ==
  \E p \in Procs :
    /\ calls[p].op = "loadTodos" /\ calls[p].pc = "done" /\ calls[p].ret.ok
    /\ ~overlapped /\ opsStarted >= 3
    /\ lastSaved.set /\ calls[p].ret.todos = lastSaved.todos
    /\ Ids(calls[p].ret.todos) = <<2, 1>>

\* (C4) initializeStorage never replaces an already persisted collection:
\* when the [] it has staged lands over an existing storage file, the
\* persisted collection is what it was, whatever other operations saved in
\* the meantime.
C4_InitNeverOverwrites ==
  [][\A p \in Procs :
       (calls[p].inInit /\ Lands(p) /\ inodes[dir.tmp] = Stringify(<<>>) /\ FileValid)
         => (FileValid' /\ Persisted' = Persisted)]_vars

\* (C5) When the only calls ever made are one createTodo per member of
\* Procs, with distinct descriptions, then once all have settled every call
\* has succeeded and the persisted collection holds exactly one record per
\* call, with pairwise distinct ids.
C5_ConcurrentCreates ==
  ( /\ opsStarted = Cardinality(Procs)
    /\ \A p \in Procs : calls[p].op = "createTodo" /\ calls[p].pc = "done"
    /\ \A p, q \in Procs : p # q => calls[p].desc # calls[q].desc )
  => /\ \A p \in Procs : calls[p].ret.ok
     /\ FileValid
     /\ Len(Persisted) = Cardinality(Procs)
     /\ DistinctIds(Persisted)
     /\ \A p \in Procs : \E i \in 1..Len(Persisted) :
          Persisted[i].id = calls[p].ret.todos[1].id

\* (C6) Once the interleaved operations have settled, the persisted
\* collection is exactly the collection written by the operation whose save
\* landed last, never a mix of two writes.
C6_LastWriterWins == (Settled /\ lastSaved.set) => (FileValid /\ Persisted = lastSaved.todos)

\* (C7) After any interleaving of createTodo, updateTodo, toggleComplete,
\* deleteTodo, clearCompletedTodos and clearAllTodos from an empty store, the
\* records of the persisted collection have pairwise distinct ids.
C7_UniqueIds == FileValid => DistinctIds(Persisted)

\* witness of C7: two records are persisted
C7_Witness == FileValid /\ Len(Persisted) >= 2 /\ DistinctIds(Persisted)

\* a is b with some elements left out, the others in the same order
RECURSIVE IsSubseq(_, _)
IsSubseq(a, b) ==
  IF a = <<>> THEN TRUE
  ELSE IF b = <<>> THEN FALSE
  ELSE IF Head(a) = Head(b) THEN IsSubseq(Tail(a), Tail(b))
  ELSE IsSubseq(a, Tail(b))

InvalidDescription(d) == d.t # "string" \/ d.core = 0 \/ d.core > MaxDescLen

\* the message of the validation error for an invalid description d
ValidationMessage(d) ==
  IF d.t # "string" THEN "Description must be a string"
  ELSE IF d.core = 0 THEN "Description cannot be empty"
  ELSE "Description cannot exceed 500 characters"

\* (C9) createTodo with an invalid description fails at once with the
\* validation error, appends no record and leaves the store exactly as it
\* was (so that a following getAllTodos returns the same collection).
C9_InvalidCreate ==
  [][\A p \in SeqProcs :
       (Starts(p) /\ calls'[p].op = "createTodo" /\ InvalidDescription(calls'[p].desc)) =>
         /\ calls'[p].pc = "done"
         /\ calls'[p].ret = Err(<<"Failed to create todo", ValidationMessage(calls'[p].desc)>>)
         /\ StoreUnchanged
         /\ UNCHANGED lastSaved]_vars

\* witness of C9: a createTodo with a blank description has failed over a
\* store that holds a record
C9_Witness ==
  \E p \in SeqProcs :
    /\ calls[p].op = "createTodo" /\ calls[p].pc = "done" /\ ~calls[p].ret.ok
    /\ calls[p].desc = Str(2, 0, 0)
    /\ FileValid /\ Len(Persisted) >= 1

\* updates carries none of the recognized fields
NoRecognizedField(u) == u.description.t = "undefined" /\ u.completed.t = "undefined"

\* call p has been refused with the invalid-argument error for updates
RejectedUpdates(c) == c.pc = "done" /\ c.ret = Err(<<"Updates object is required">>)

\* (C10, as claimed) updateTodo with a valid id rejects updates with the
\* invalid-argument error, without changing the store, whenever updates is
\* absent, is not a mapping, or is an empty mapping.
C10_RejectsEmptyUpdates ==
  [][\A p \in SeqProcs :
       ( /\ Starts(p) /\ calls'[p].op = "updateTodo" /\ ~InvalidId(calls'[p].id)
         /\ \/ calls'[p].upd.kind # "object"
            \/ NoRecognizedField(calls'[p].upd) /\ ~calls'[p].upd.extra )
       => RejectedUpdates(calls'[p]) /\ StoreUnchanged]_vars

\* (C10, amended) updateTodo with a valid id rejects updates with the
\* invalid-argument error, without changing the store, whenever updates is
\* undefined, null or not of type object; an array or a mapping, the empty
\* mapping included, passes the check and the call goes on to load the
\* collection; without a recognized field it saves the collection unchanged.
C10_RejectsNonObjects ==
  [][\A p \in SeqProcs :
       /\ (Starts(p) /\ calls'[p].op = "updateTodo" /\ ~InvalidId(calls'[p].id)) =>
            /\ calls'[p].upd.kind \in {"undefined", "null", "string"} =>
                 RejectedUpdates(calls'[p]) /\ StoreUnchanged
            /\ calls'[p].upd.kind \in {"object", "array"} =>
                 calls'[p].pc = "read" /\ StoreUnchanged
       /\ (Lands(p) /\ calls[p].op = "updateTodo" /\ NoRecognizedField(calls[p].upd)) =>
            FileValid' /\ Persisted' = Stored]_vars

\* witness of C10: an updateTodo for a persisted record has been refused
\* because updates was a string
C10_Witness ==
  \E p \in SeqProcs :
    /\ calls[p].op = "updateTodo" /\ RejectedUpdates(calls[p])
    /\ calls[p].upd.kind = "string"
    /\ FileValid /\ Len(Persisted) >= 1 /\ Persisted[1].id = calls[p].id.n

\* (C11) updateTodo(id, {completed: b}) on an existing record changes only
\* that record's completed (to b) and updatedAt: its id, description and
\* createdAt and every field of every other record are the same in the
\* persisted collection when its save has landed.
C11_CompletedOnly ==
  [][\A p \in SeqProcs :
       ( /\ Lands(p) /\ ~calls[p].inInit /\ calls[p].op = "updateTodo"
         /\ calls[p].upd.description.t = "undefined"
         /\ calls[p].upd.completed.t = "boolean" )
       => /\ FileValid'
          /\ Len(Persisted') = Len(Stored)
          /\ \E i \in 1..Len(Stored) : Stored[i].id = calls[p].id.n
          /\ \A i \in 1..Len(Stored) :
               IF Stored[i].id = calls[p].id.n
                 THEN /\ Persisted'[i] =
                           [Stored[i] EXCEPT !.completed = calls[p].upd.completed.b,
                                             !.updatedAt = Persisted'[i].updatedAt]
                      /\ FromISO(Persisted'[i].updatedAt) >= FromISO(Stored[i].updatedAt)
                 ELSE Persisted'[i] = Stored[i]]_vars

\* witness of C11: updateTodo(id, {completed: true}) has landed on the first
\* of two records, one millisecond after it was created
C11_Witness ==
  \E p \in SeqProcs :
    /\ calls[p].op = "updateTodo" /\ calls[p].pc = "done" /\ calls[p].ret.ok
    /\ calls[p].upd = Updates("object", Undefined, Bool(TRUE), FALSE)
    /\ FileValid /\ Len(Persisted) = 2
    /\ Persisted[1].id = calls[p].id.n
    /\ Persisted[1].completed /\ ~Persisted[2].completed
    /\ FromISO(Persisted[1].updatedAt) > FromISO(Persisted[1].createdAt)

\* the getAllTodos inside call p returns its collection in this step (the
\* load did not fail)
LoadReturns(p) ==
  /\ calls[p].inLoad
  /\ calls'[p].pc \in {"done", "mkdirS"}
  /\ ~calls'[p].inLoad
  /\ ~(\E i \in 1..Len(calls'[p].ret.err) : calls'[p].ret.err[i] = "Failed to retrieve todos")

\* (C12) updateTodo, toggleComplete and deleteTodo with a well-formed id
\* that matches no record of the loaded collection fail with 'Todo not found'
\* and enter no save: the persisted collection is what it was.
C12_NotFound ==
  [][\A p \in SeqProcs :
       ( /\ LoadReturns(p)
         /\ calls[p].op \in {"updateTodo", "toggleComplete", "deleteTodo"}
         /\ ~\E i \in 1..Len(Stored') : Stored'[i].id = calls[p].id.n )
       => /\ calls'[p].pc = "done"
          /\ calls'[p].ret = Err(<<"Todo not found">>)
          /\ Stored' = Stored
          /\ ~calls[p].inInit => StoreUnchanged /\ UNCHANGED lastSaved]_vars

\* witness of C12: a toggleComplete for an id that is not among the persisted
\* records has failed with 'Todo not found'
C12_Witness ==
  \E p \in SeqProcs :
    /\ calls[p].op = "toggleComplete" /\ calls[p].pc = "done"
    /\ calls[p].ret = Err(<<"Todo not found">>)
    /\ FileValid /\ Len(Persisted) >= 1
    /\ \A i \in 1..Len(Persisted) : Persisted[i].id # calls[p].id.n

\* (C13) deleteTodo(id) on an existing record succeeds and removes exactly
\* that record, the others staying as they were and in their order; a second
\* deleteTodo(id) right after it fails with 'Todo not found' and changes
\* nothing.
C13_DeleteTwice ==
  [][\A p \in SeqProcs :
       /\ (Lands(p) /\ ~calls[p].inInit /\ calls[p].op = "deleteTodo") =>
            /\ calls'[p].pc = "done" /\ calls'[p].ret.ok
            /\ \E i \in 1..Len(Stored) : Stored[i].id = calls[p].id.n
            /\ FileValid'
            /\ Len(Persisted') = Len(Stored) - 1
            /\ IsSubseq(Persisted', Stored)
            /\ \A i \in 1..Len(Persisted') : Persisted'[i].id # calls[p].id.n
       /\ (calls[p].again /\ LoadReturns(p)) =>
            /\ calls'[p].pc = "done"
            /\ calls'[p].ret = Err(<<"Todo not found">>)
            /\ StoreUnchanged]_vars

\* witness of C13: the second deleteTodo of the same id has failed with
\* 'Todo not found'
C13_Witness ==
  \E p \in SeqProcs :
    /\ calls[p].op = "deleteTodo" /\ calls[p].pc = "done" /\ calls[p].again
    /\ calls[p].ret = Err(<<"Todo not found">>)
    /\ FileValid /\ Persisted = <<>> /\ nextId = 2

\* (C14, as claimed) toggleComplete(id) on an existing record, completed or
\* not, negates completed and persists it, and the record's updatedAt is
\* strictly greater than before.
C14_ToggleStrictlyLater ==
  [][\A p \in SeqProcs :
       (Lands(p) /\ ~calls[p].inInit /\ calls[p].op = "toggleComplete") =>
         /\ FileValid'
         /\ \E i \in 1..Len(Stored) :
              /\ Stored[i].id = calls[p].id.n
              /\ Persisted'[i].completed = ~Stored[i].completed
              /\ FromISO(Persisted'[i].updatedAt) > FromISO(Stored[i].updatedAt)]_vars

\* (C14, amended) toggleComplete(id) on an existing record, completed or
\* not, negates completed, sets updatedAt to the time at which the loaded
\* collection is processed, which is never earlier than the previous
\* updatedAt (and equal to it within the same millisecond), leaves the rest
\* alone, and persists the result.
C14_ToggleNotEarlier ==
  [][\A p \in SeqProcs :
       /\ ( /\ LoadReturns(p) /\ calls[p].op = "toggleComplete"
            /\ \E i \in 1..Len(Stored') : Stored'[i].id = calls[p].id.n ) =>
            /\ calls'[p].pc = "mkdirS"
            /\ Len(calls'[p].data) = Len(Stored')
            /\ \A i \in 1..Len(Stored') :
                 IF Stored'[i].id = calls[p].id.n
                   THEN /\ calls'[p].data[i] =
                             [Stored'[i] EXCEPT !.completed = ~Stored'[i].completed,
                                                !.updatedAt = ToISO(now)]
                        /\ now >= FromISO(Stored'[i].updatedAt)
                   ELSE calls'[p].data[i] = Stored'[i]
       /\ (Lands(p) /\ ~calls[p].inInit /\ calls[p].op = "toggleComplete") =>
            /\ FileValid' /\ Persisted' = calls[p].data
            /\ calls'[p].pc = "done" /\ calls'[p].ret.ok
            /\ \E i \in 1..Len(Stored) :
                 /\ Stored[i].id = calls[p].id.n
                 /\ Persisted'[i].completed = ~Stored[i].completed
                 /\ FromISO(Persisted'[i].updatedAt) >= FromISO(Stored[i].updatedAt)
                 /\ toJSON(calls'[p].ret.todos[1]) = Persisted'[i]]_vars

\* witness of C14: the third call, a toggleComplete, has turned a completed
\* record back to not completed at a time later than the record's creation
C14_Witness ==
  \E p \in SeqProcs :
    /\ calls[p].op = "toggleComplete" /\ calls[p].pc = "done" /\ calls[p].ret.ok
    /\ FileValid /\ Len(Persisted) = 1
    /\ ~Persisted[1].completed
    /\ FromISO(Persisted[1].updatedAt) = now
    /\ now > FromISO(Persisted[1].createdAt)
    /\ opsStarted = 3

\* (C15) In every reachable state every persisted record's description is a
\* string that is trimmed, non-empty and at most 500 characters long,
\* whatever createTodo and updateTodo calls were accepted or rejected.
C15_DescriptionsValid ==
  FileValid =>
    \A i \in 1..Len(Persisted) :
      /\ Persisted[i].description.t = "string"
      /\ Persisted[i].description.pre = 0
      /\ Persisted[i].description.post = 0
      /\ Length(Persisted[i].description) \in 1..MaxDescLen

\* witness of C15: a record holds a description of 500 characters (given
\* with blanks around it) and an updateTodo with a blank description has
\* just been rejected
C15_Witness ==
  \E p \in SeqProcs :
    /\ calls[p].op = "updateTodo" /\ calls[p].pc = "done"
    /\ calls[p].ret = Err(<<"Description cannot be empty">>)
    /\ FileValid /\ Len(Persisted) = 1
    /\ Persisted[1].description = Str(0, MaxDescLen, 0)

\* (C16) validateDescription, as createTodo applies it, accepts its input
\* if and only if it is a string whose trimmed length is between 1 and 500
\* inclusive, and then yields the trimmed string: 500 characters are
\* accepted, 501 rejected, empty and blank strings rejected, non-strings
\* rejected.
C16_ValidateDescription ==
  [][\A p \in SeqProcs :
       (Starts(p) /\ calls'[p].op = "createTodo") =>
         LET d == calls'[p].desc
         IN  IF d.t = "string" /\ d.core >= 1 /\ d.core <= MaxDescLen
               THEN /\ calls'[p].pc = "read"
                    /\ calls'[p].todo.description = Str(0, d.core, 0)
               ELSE /\ calls'[p].pc = "done"
                    /\ ~calls'[p].ret.ok
                    /\ calls'[p].todo = NoTodo]_vars

\* witness of C16: a description of 500 characters between two blanks has
\* been accepted and trimmed by the createTodo in flight
C16_Witness ==
  \E p \in SeqProcs :
    /\ calls[p].op = "createTodo" /\ calls[p].pc = "read"
    /\ calls[p].desc = Str(1, MaxDescLen, 1)
    /\ calls[p].todo.description = Str(0, MaxDescLen, 0)

\* (C17) Every persisted record, and every record a call returns, satisfies
\* updatedAt >= createdAt, across create, update, toggle and reload (toJSON
\* followed by fromJSON).
C17_UpdatedNotBeforeCreated ==
  /\ FileValid =>
       \A i \in 1..Len(Persisted) :
         FromISO(Persisted[i].updatedAt) >= FromISO(Persisted[i].createdAt)
  /\ \A p \in SeqProcs :
       (calls[p].pc = "done" /\ calls[p].op \notin {"loadTodos", "saveTodos"}) =>
         \A i \in 1..Len(calls[p].ret.todos) :
           calls[p].ret.todos[i].updatedAt >= calls[p].ret.todos[i].createdAt

\* witness of C17: getAllTodos has reloaded a record that was modified one
\* millisecond after its creation
C17_Witness ==
  \E p \in SeqProcs :
    /\ calls[p].op = "getAllTodos" /\ calls[p].pc = "done" /\ calls[p].ret.ok
    /\ Len(calls[p].ret.todos) = 1
    /\ calls[p].ret.todos[1].updatedAt > calls[p].ret.todos[1].createdAt
    /\ FileValid /\ Persisted = MapToJSON(calls[p].ret.todos)

\* the Record Store's own error when the pending fs call of c fails: the
\* message loadTodos or saveTodos throws
StoreError(c) ==
  IF c.pc = "read" THEN <<"Failed to load todos">>
  ELSE IF c.inInit
    THEN <<"Failed to initialize storage", "Failed to save todos", "rename failed">>
    ELSE <<"Failed to save todos", "rename failed">>

\* the loadTodos or saveTodos under service call p fails in this step
StoreFails(p) ==
  /\ calls[p].op \notin {"loadTodos", "saveTodos"}
  /\ ReadFileFault(p) \/ SaveUnlink(p)

\* (C18, as claimed) Every TodoService operation whose loadTodos or
\* saveTodos fails itself fails, and the caller receives the Record Store's
\* own error, unmodified.
C18_PropagatesUnmodified ==
  [][\A p \in SeqProcs :
       StoreFails(p) =>
         /\ calls'[p].pc = "done"
         /\ calls'[p].ret = Err(StoreError(calls[p]))]_vars

\* (C18, amended) Every TodoService operation whose loadTodos or saveTodos
\* fails itself fails; the Error it throws carries the Record Store's
\* message at its end, prefixed with 'Failed to retrieve todos' when the
\* failure came through getAllTodos and, before that, with 'Failed to create
\* todo' when the operation is createTodo.  Only a save failure of an
\* operation other than createTodo arrives as the Record Store threw it.
C18_PropagatesWrapped ==
  [][\A p \in SeqProcs :
       StoreFails(p) =>
         /\ calls'[p].pc = "done"
         /\ ~calls'[p].ret.ok
         /\ calls'[p].ret.err =
              (IF calls[p].op = "createTodo" THEN <<"Failed to create todo">> ELSE <<>>)
              \o (IF calls[p].inLoad THEN <<"Failed to retrieve todos">> ELSE <<>>)
              \o StoreError(calls[p])
         /\ calls'[p].ret.err[Len(calls'[p].ret.err)] \in
              {"Failed to load todos", "rename failed"}]_vars

\* witness of C18: a createTodo whose load failed has been rejected with the
\* store's message under two prefixes
C18_Witness ==
  \E p \in SeqProcs :
    /\ calls[p].op = "createTodo" /\ calls[p].pc = "done"
    /\ calls[p].ret =
         Err(<<"Failed to create todo", "Failed to retrieve todos", "Failed to load todos">>)
    /\ FileValid

\* the handler of p writes its first response in this step
Responds(p) == calls[p].sent = 0 /\ calls'[p].sent > 0

\* the request of c is malformed: an invalid id, updates that are not a
\* non-empty mapping, an invalid description or a non-boolean completed
BadRequest(c) ==
  \/ c.req = "createTodo" /\ InvalidDescription(c.desc)
  \/ c.req \in {"updateTodo", "deleteTodo"} /\ InvalidId(c.id)
  \/ /\ c.req = "updateTodo"
     /\ \/ c.upd.kind # "object"
        \/ NoRecognizedField(c.upd) /\ ~c.upd.extra
        \/ c.upd.description.t # "undefined" /\ InvalidDescription(c.upd.description)
        \/ c.upd.completed.t \notin {"undefined", "boolean"}

\* the request of c names a todo that is not in the store
UnknownTodo(c, todos) ==
  /\ c.req \in {"updateTodo", "deleteTodo"}
  /\ \A i \in 1..Len(todos) : todos[i].id # c.id.n

\* (C19) Every request handled by TodoController gets exactly one response.
\* When the storage fails under it (during the controller's initialization
\* or the service call) the status is 500; otherwise a malformed request is
\* answered with 400, a request for a todo that does not exist with 404, and
\* any other request with 200 (201 for a created todo).
C19_StatusByClass ==
  [][\A p \in SeqProcs :
       /\ calls'[p].sent <= 1
       /\ (calls'[p].req # "none" /\ calls'[p].pc = "done") => calls'[p].sent = 1
       /\ (calls'[p].req # "none" /\ calls'[p].pc # "done") => calls'[p].sent = 0
       /\ Responds(p) =>
            calls'[p].status =
              IF ReadFileFault(p) \/ SaveUnlink(p) THEN 500
              ELSE IF BadRequest(calls'[p]) THEN 400
              ELSE IF UnknownTodo(calls'[p], Stored) THEN 404
              ELSE IF calls'[p].req = "createTodo" THEN 201
              ELSE 200]_vars

\* witness of C19: a PUT for a todo that is not among the persisted ones
\* has been answered with 404, once
C19_Witness ==
  \E p \in SeqProcs :
    /\ calls[p].req = "updateTodo" /\ calls[p].pc = "done"
    /\ calls[p].status = 404 /\ calls[p].sent = 1
    /\ FileValid /\ Len(Persisted) >= 1
    /\ UnknownTodo(calls[p], Persisted)

\* updates carries a field that Todo's validation refuses
FieldsInvalid(u) ==
  \/ u.description.t # "undefined" /\ InvalidDescription(u.description)
  \/ u.completed.t \notin {"undefined", "boolean"}

\* the message of the validation error for such updates: the description is
\* applied first
FieldMessage(u) ==
  IF u.description.t # "undefined" /\ InvalidDescription(u.description)
    THEN ValidationMessage(u.description)
    ELSE "Completed status must be a boolean"

\* (C20, as claimed) A service call that is rejected with a validation error
\* is rejected with the identical error whatever the store holds: an
\* updateTodo whose updates carry an invalid field is rejected with that
\* field's validation error for every collection it loads.
C20_ValidationWhateverStore ==
  [][\A p \in SeqProcs :
       (LoadReturns(p) /\ calls[p].op = "updateTodo" /\ FieldsInvalid(calls[p].upd)) =>
         /\ calls'[p].pc = "done"
         /\ calls'[p].ret = Err(<<FieldMessage(calls[p].upd)>>)]_vars

\* (C20, amended) Validation of createTodo's description and of the id and
\* updates arguments is local: the call is rejected before any store access,
\* with an error that depends on the input alone.  The fields of updateTodo's
\* updates are validated after the collection is loaded and the record is
\* found: the call is rejected with the field's validation error when the
\* id is in the loaded collection and with 'Todo not found' when it is not;
\* the store is unchanged either way.
C20_ValidationLocal ==
  [][\A p \in SeqProcs :
       /\ (Starts(p) /\ calls'[p].op = "createTodo" /\ InvalidDescription(calls'[p].desc)) =>
            /\ calls'[p].ret = Err(<<"Failed to create todo", ValidationMessage(calls'[p].desc)>>)
            /\ StoreUnchanged
       /\ ( /\ Starts(p)
            /\ calls'[p].op \in {"updateTodo", "toggleComplete", "deleteTodo"}
            /\ (calls'[p].id.t # "string" \/ calls'[p].id.n = 0) ) =>
            /\ calls'[p].ret = Err(<<"Valid todo ID is required">>)
            /\ StoreUnchanged
       /\ (LoadReturns(p) /\ calls[p].op = "updateTodo" /\ FieldsInvalid(calls[p].upd)) =>
            /\ calls'[p].pc = "done"
            /\ calls'[p].ret =
                 IF \E i \in 1..Len(Stored') : Stored'[i].id = calls[p].id.n
                   THEN Err(<<FieldMessage(calls[p].upd)>>)
                   ELSE Err(<<"Todo not found">>)
            /\ Stored' = Stored]_vars

\* witness of C20: an updateTodo with a non-boolean completed has been
\* rejected with the validation error for a record that is persisted
C20_Witness ==
  \E p \in SeqProcs :
    /\ calls[p].op = "updateTodo" /\ calls[p].pc = "done"
    /\ calls[p].ret = Err(<<"Completed status must be a boolean">>)
    /\ FileValid
    /\ \E i \in 1..Len(Persisted) : Persisted[i].id = calls[p].id.n

\* StorageService.exists(): fs.access(this.filePath) succeeds
exists == FileExists

\* (C21) loadTodos on an absent storage file does not fail: it enters
\* initializeStorage, and, unless an I/O fault hits it or another call
\* overlaps it, it returns the empty collection and leaves a storage file
\* that exists and holds [].
C21_LoadAbsent ==
  [][\A p \in Procs :
       calls[p].op = "loadTodos" =>
         /\ (calls[p].pc = "read" /\ ~FileExists /\ calls'[p] # calls[p] /\ crashes' = crashes) =>
              calls'[p].pc = "mkdirI" /\ calls'[p].inInit
         /\ (calls[p].inInit /\ ~overlapped /\ calls[p].pc = "rename" /\ calls'[p].pc = "unlink") =>
              dir.tmp # 0
         /\ (calls[p].inInit /\ ~overlapped /\ Settles(p) /\ calls[p].pc # "unlink") =>
              /\ calls'[p].ret = Ok(<<>>, 0)
              /\ exists'
              /\ FileValid' /\ Persisted' = <<>>]_vars

\* witness of C21: the first call, a loadTodos, has returned [] and the
\* storage file exists
C21_Witness ==
  \E p \in Procs :
    /\ calls[p].op = "loadTodos" /\ calls[p].pc = "done"
    /\ calls[p].ret = Ok(<<>>, 0)
    /\ opsStarted = 1 /\ crashes = 0
    /\ exists /\ FileValid /\ Persisted = <<>>

\* (C22) getTodoById fails with 'Valid todo ID is required', before any
\* store access, when id is empty or not a string; otherwise it loads the
\* collection and returns the record whose id matches, or null (no record)
\* when none matches; it never fails with 'Todo not found' and never changes
\* the persisted collection.
C22_GetTodoById ==
  [][\A p \in SeqProcs :
       /\ (Starts(p) /\ calls'[p].op = "getTodoById") =>
            IF calls'[p].id.t # "string" \/ calls'[p].id.n = 0
              THEN /\ calls'[p].pc = "done"
                   /\ calls'[p].ret = Err(<<"Valid todo ID is required">>)
                   /\ StoreUnchanged
              ELSE calls'[p].pc = "read" /\ StoreUnchanged
       /\ (LoadReturns(p) /\ calls[p].op = "getTodoById") =>
            /\ calls'[p].pc = "done" /\ calls'[p].ret.ok
            /\ IF \E i \in 1..Len(Stored') : Stored'[i].id = calls[p].id.n
                 THEN /\ Len(calls'[p].ret.todos) = 1
                      /\ calls'[p].ret.todos[1].id = calls[p].id.n
                      /\ \E i \in 1..Len(Stored') : Stored'[i] = toJSON(calls'[p].ret.todos[1])
                 ELSE calls'[p].ret.todos = <<>>
       /\ (calls[p].op = "getTodoById" /\ calls'[p] # calls[p] /\ InFlight(p)) =>
            /\ Stored' = Stored
            /\ calls'[p].ret.err # <<"Todo not found">>]_vars

\* witness of C22: getTodoById has returned null for a well-formed id over a
\* store that holds another record
C22_Witness ==
  \E p \in SeqProcs :
    /\ calls[p].op = "getTodoById" /\ calls[p].pc = "done"
    /\ calls[p].ret = Ok(<<>>, 0)
    /\ FileValid /\ Len(Persisted) >= 1
    /\ \A i \in 1..Len(Persisted) : Persisted[i].id # calls[p].id.n

C24_TodosCount ==
  [][\A p \in SeqProcs :
       (LoadReturns(p) /\ calls[p].op = "getTodosCount") =>
         /\ calls'[p].pc = "done" /\ calls'[p].ret.ok
         /\ calls'[p].cnt.total = Len(Stored')
         /\ calls'[p].cnt.completed =
              Cardinality({i \in 1..Len(Stored') : Stored'[i].completed})
         /\ calls'[p].cnt.incomplete =
              Cardinality({i \in 1..Len(Stored') : ~Stored'[i].completed})
         /\ calls'[p].cnt.total = calls'[p].cnt.completed + calls'[p].cnt.incomplete
         /\ Stored' = Stored]_vars

\* witness of C24: getTodosCount has counted two records, both incomplete
C24_Witness ==
  \E p \in SeqProcs :
    /\ calls[p].op = "getTodosCount" /\ calls[p].pc = "done" /\ calls[p].ret.ok
    /\ calls[p].cnt = [total |-> 2, completed |-> 0, incomplete |-> 2]
    /\ FileValid /\ Len(Persisted) = 2

\* (C25) updateTodo is all-or-nothing: when a provided field fails
\* validation, a valid description together with a non-boolean completed
\* included, the call on an existing record fails with the validation error
\* and enters no save, so that no field of the record, description and
\* updatedAt included, changes in the persisted collection.
C25_UpdateAllOrNothing ==
  [][\A p \in SeqProcs :
       ( /\ LoadReturns(p) /\ calls[p].op = "updateTodo"
         /\ \E i \in 1..Len(Stored') : Stored'[i].id = calls[p].id.n
         /\ \/ calls[p].upd.completed.t \notin {"undefined", "boolean"}
            \/ /\ calls[p].upd.description.t # "undefined"
               /\ InvalidDescription(calls[p].upd.description) )
       => /\ calls'[p].pc = "done"
          /\ ~calls'[p].ret.ok
          /\ calls'[p].ret.err \in
               {<<"Description must be a string">>, <<"Description cannot be empty">>,
                <<"Description cannot exceed 500 characters">>,
                <<"Completed status must be a boolean">>}
          /\ StoreUnchanged
          /\ UNCHANGED lastSaved]_vars

\* witness of C25: an updateTodo with a valid description and a non-boolean
\* completed has failed, and the record still has its first description and
\* its updatedAt of creation although the clock has advanced
C25_Witness ==
  \E p \in SeqProcs :
    /\ calls[p].op = "updateTodo" /\ calls[p].pc = "done" /\ ~calls[p].ret.ok
    /\ calls[p].upd = Updates("object", Str(0, 2, 0), Num, FALSE)
    /\ FileValid /\ Len(Persisted) = 1
    /\ Persisted[1].id = calls[p].id.n
    /\ Persisted[1].description # Str(0, 2, 0)
    /\ Persisted[1].updatedAt = Persisted[1].createdAt
    /\ now > FromISO(Persisted[1].createdAt)

\* (C26) When no I/O fault occurs every saveTodos succeeds, also when calls
\* overlap: no call finds its '<file>.tmp' staging file gone at its rename
\* (no call is in the catch block of saveTodos) and no call has failed with
\* a write error.
C26_NoStagingInterference ==
  \A p \in Procs :
    /\ calls[p].pc # "unlink"
    /\ calls[p].pc = "done" => ~IsWriteError(calls[p].ret.err)

\* e is the Error of data that cannot be loaded: JSON.parse or Todo.fromJSON
\* rejected it
IsDataError(e) ==
  \E i \in 1..Len(e) :
    e[i] \in {"Invalid JSON format in storage file", "Invalid todo data",
              "Description must be a string", "Description cannot be empty",
              "Description cannot exceed 500 characters"}

\* (C27) Every collection a TodoService operation persists is loadable: when
\* its save has landed the file parses, Todo.fromJSON succeeds on every
\* record and yields a todo whose toJSON form is that record again (same id,
\* description, completed, createdAt and updatedAt), the todo the operation
\* returns is among them, and a getAllTodos never fails because of the data:
\* for calls made one after the other it fails only on an I/O fault.
C27_PersistedLoadable ==
  [][\A p \in SeqProcs :
       /\ (Lands(p) /\ ~calls[p].inInit)
          => /\ FileValid'
             /\ LET m == MapFromJSON(Persisted', nextId, now)
                IN  /\ m.ok
                    /\ MapToJSON(m.todos) = Persisted'
                    /\ \A i \in 1..Len(calls[p].val.todos) :
                         \E j \in 1..Len(m.todos) : m.todos[j] = calls[p].val.todos[i]
       /\ (Settles(p) /\ calls[p].op = "getAllTodos")
          => /\ ~IsDataError(calls'[p].ret.err)
             /\ calls'[p].ret.ok => MapToJSON(calls'[p].ret.todos) = Stored']_vars

\* witness of C27: getAllTodos has returned the one record of the store,
\* which a toggleComplete wrote one millisecond after its creation, with the
\* fields that are persisted
C27_Witness ==
  \E p \in SeqProcs :
    /\ calls[p].op = "getAllTodos" /\ calls[p].pc = "done" /\ calls[p].ret.ok
    /\ Len(calls[p].ret.todos) = 1
    /\ calls[p].ret.todos[1].completed
    /\ calls[p].ret.todos[1].updatedAt > calls[p].ret.todos[1].createdAt
    /\ FileValid /\ Persisted = <<toJSON(calls[p].ret.todos[1])>>

\* the handler of p awaits todoService.initialize()
AwaitsInitialize(p) == calls[p].ctl = "init" /\ calls[p].inInit

\* the initializeStorage awaited by p returns in this step: fs.access found
\* the file, or the rename of its saveTodos([]) landed
InitializeSucceeds(p) ==
  /\ AwaitsInitialize(p)
  /\ (calls[p].pc = "access" /\ FileExists) \/ Lands(p)

\* the initializeStorage awaited by p throws in this step
InitializeFails(p) ==
  AwaitsInitialize(p) /\ ~calls'[p].inInit /\ ~InitializeSucceeds(p)

\* (C28) TodoController.initialized becomes true exactly when an awaited
\* todoService.initialize() returns; when it throws, initialized stays false,
\* the request is answered 500 and the next request calls initialize again;
\* once initialized is true it stays true and no request enters
\* initializeStorage any more.
C28_InitializedOnce ==
  [][\A p \in SeqProcs :
       /\ (~initialized /\ initialized') => InitializeSucceeds(p)
       /\ InitializeSucceeds(p) => initialized'
       /\ InitializeFails(p)
          => ~initialized' /\ calls'[p].ctl = "responded" /\ calls'[p].status = 500
       /\ (Starts(p) /\ ~initialized)
          => calls'[p].ctl = "init" /\ calls'[p].inInit /\ calls'[p].pc = "mkdirI"
       /\ initialized => initialized' /\ ~calls'[p].inInit]_vars

\* witness of C28: with the controller initialized, the third request, a
\* GET, is answered 200 with the todo the second request created
C28_Witness ==
  \E p \in SeqProcs :
    /\ initialized /\ opsStarted = 3
    /\ calls[p].req = "getAllTodos" /\ calls[p].ctl = "responded"
    /\ calls[p].status = 200 /\ Len(calls[p].ret.todos) = 1

\* what is left of the apiRequest of call c: the attempts not yet begun
\* and the stage of the current one (request sent, answered, delay)
Remaining(c) ==
  IF c.pc \notin {"fetch", "delay"} THEN 0
  ELSE 3 * (retryAttempts - c.attempt)
       + (IF c.pc = "delay" THEN 1 ELSE IF c.req = "answered" THEN 2 ELSE 3)

\* (C29) apiRequest makes at most retryAttempts (3) fetch calls per call; it
\* makes a further fetch only after the delay that follows a rejected fetch
\* (a network error); an HTTP error response ends the call in the step that
\* delivers it, thrown without another fetch; an attempt ends by returning
\* the parsed 200 response, by throwing, or by the delay after a network
\* error before the last attempt; and the call terminates: a pending call
\* can always take a step and each of its steps brings it closer to its end.
C29_BoundedRetries ==
  /\ [](\A t \in Togs : /\ ui.togs[t].fetches <= retryAttempts
                        /\ ui.togs[t].attempt <= retryAttempts
                        /\ ui.togs[t].pc \in {"fetch", "delay"} => ENABLED UiStep(t))
  /\ [][\A t \in Togs :
          LET c == ui.togs[t]
              d == ui'.togs[t]
          IN  /\ (c.pc \in {"fetch", "delay"} /\ d.fetches # c.fetches)
                 => /\ c.pc = "delay" /\ c.err = FetchError
                    /\ d.fetches = c.fetches + 1 /\ d.attempt = c.attempt + 1
              /\ (c.pc = "fetch" /\ c.req = "answered" /\ c.res.status # 200
                  /\ d # c /\ d.err # FetchError)
                 => d.pc = "done" /\ ~d.ok /\ d.thrown # NoError /\ d.fetches = c.fetches
              /\ (c.pc = "fetch" /\ d.pc = "delay")
                 => d.err = FetchError /\ c.attempt < retryAttempts
              /\ (c.pc \in {"fetch", "delay"} /\ d.pc = "done")
                 => IF d.ok THEN c.res.status = 200 /\ d.thrown = NoError
                    ELSE d.thrown # NoError
              /\ (c.pc \in {"fetch", "delay"} /\ d # c)
                 => Remaining(d) < Remaining(c)]_vars

\* witness of C29: a call has thrown 'Failed after 3 attempts' after three
\* rejected fetches
C29_Witness ==
  \E t \in Togs :
    /\ ui.togs[t].pc = "done" /\ ~ui.togs[t].ok
    /\ ui.togs[t].fetches = retryAttempts
    /\ ui.togs[t].err = FetchError
    /\ Includes(ui.togs[t].thrown.message, "Failed after")

\* every toggleTodoCompletion call has settled
UiSettled == \A t \in Togs : ui.togs[t].pc \in {"idle", "done"}

\* (C30) After every in-flight toggleTodoCompletion has settled, the
\* completed value of the todo in this.todos equals the value stored on the
\* server, also when two toggles of the todo overlapped; stated for the
\* runs in which the server answered every request (no fetch was rejected).
C30_LocalMatchesServer ==
  (UiSettled /\ ~ui.rejected /\ ui.cur # 0 /\ ui.exists) => ui.objs[ui.cur] = ui.server

====
